---- MODULE Spec2Model ----
(***************************************************************************)
(* Model of runtime/jit/profiling_info.cc: ProfilingInfo::Create (the      *)
(* single linear scan over a method's dex instructions), the ProfilingInfo *)
(* constructor, ProfilingInfo::AddInvokeInfo (the inline-cache updater),   *)
(* ProfilingInfo::IncrementBBCount (the block counter updater) and the     *)
(* garbage collector clearing inline-cache entries concurrently; and of    *)
(* compiler/optimizing/extensions/infrastructure/cloning.h: the            *)
(* HInstructionCloner visitor and its clone map.                           *)
(***************************************************************************)
EXTENDS Integers, Sequences, FiniteSets, TLC

\* ------------------------------------------------------------------ bounds
\* Size of the scanned code array, in 16-bit code units (insns_size_in_code_units_).
MaxCodeUnits == 6
\* Number of case targets of one switch payload.
MaxCases == 1
\* Number of try items of the exception table (tries_size_).
MaxTries == 1
\* Number of catch handlers of one try item.
MaxHandlers == 1
\* Threads that run AddInvokeInfo and IncrementBBCount concurrently.
NumThreads == 2
\* Receiver classes the profiled call sites can observe.
NumTypes == 3
\* Calls of AddInvokeInfo and IncrementBBCount made in one run.
MaxCalls == 3
\* Calls of AddInvokeInfo made in a run whose threads record their retry loops.
MaxRaceCalls == 2
\* InlineCache::kIndividualCacheSize, the number of classes_ slots of one
\* inline cache (declared in profiling_info.h).
kIndividualCacheSize == 2

\* ------------------------------------------------------- machine integers
\* A uint32_t or int32_t value is written as the two's complement reading of
\* its 32 bits, an integer in INT32_MIN .. INT32_MAX (TLC integers are 32 bits
\* wide): 0 .. 2^31-1 stand for themselves and the bit pattern of an unsigned
\* value x >= 2^31 is written x - 2^32, so that 0xFFFFFFFF is -1.
INT32_MAX == 2147483647
INT32_MIN == -INT32_MAX - 1
\* std::numeric_limits<uint32_t>::max(), bit pattern 0xFFFFFFFF.
UINT32_MAX == -1
\* uint16_t code units.
U16 == 65536

\* a + b on 32 bits (wraps modulo 2^32).
U32Add(a, b) ==
  IF a > 0 /\ b > INT32_MAX - a
    THEN (a - INT32_MAX - 1) + (b - INT32_MAX - 1)
  ELSE IF a < 0 /\ b < INT32_MIN - a
    THEN (a + INT32_MAX + 1) + (b + INT32_MAX + 1)
  ELSE a + b

\* a < b as uint32_t values.
U32Less(a, b) ==
  IF (a >= 0) = (b >= 0) THEN a < b ELSE a >= 0

\* reinterpret_cast<const int32_t*>(&switch_data[k]): two consecutive code
\* units read as one little-endian 32-bit two's complement integer.
ReadInt32(units, k) ==
  LET lo == units[k + 1]
      hi == units[k + 2]
  IN  IF hi >= U16 \div 2 THEN lo + U16 * (hi - U16) ELSE lo + U16 * hi

\* The two code units that hold the int32_t value v (dex file format).
Int32Units(v) == <<v % U16, (v \div U16) % U16>>

RECURSIVE FlattenInt32(_)
FlattenInt32(vs) ==
  IF vs = <<>> THEN <<>> ELSE Int32Units(Head(vs)) \o FlattenInt32(Tail(vs))

\* ------------------------------------------------------------ dex opcodes
\* The opcodes ProfilingInfo::Create records as inline-cache entries.
InvokeCases ==
  {"INVOKE_VIRTUAL", "INVOKE_VIRTUAL_RANGE", "INVOKE_VIRTUAL_QUICK",
   "INVOKE_VIRTUAL_RANGE_QUICK", "INVOKE_INTERFACE", "INVOKE_INTERFACE_RANGE"}

GotoCases == {"GOTO", "GOTO_16", "GOTO_32"}

IfCases ==
  {"IF_EQ", "IF_NE", "IF_GT", "IF_GE", "IF_LT", "IF_LE",
   "IF_EQZ", "IF_NEZ", "IF_GTZ", "IF_GEZ", "IF_LTZ", "IF_LEZ"}

\* The dex instruction set, by what an instruction does (dex format): the
\* virtual and interface invokes in all encodings, the unconditional jumps,
\* the conditional branches, the two switches, and instructions that neither
\* dispatch on a receiver nor branch.
VirtualOrInterfaceInvokes ==
  {"INVOKE_VIRTUAL", "INVOKE_VIRTUAL_RANGE", "INVOKE_VIRTUAL_QUICK",
   "INVOKE_VIRTUAL_RANGE_QUICK", "INVOKE_INTERFACE", "INVOKE_INTERFACE_RANGE"}
UnconditionalJumps == {"GOTO", "GOTO_16", "GOTO_32"}
ConditionalBranches ==
  {"IF_EQ", "IF_NE", "IF_GT", "IF_GE", "IF_LT", "IF_LE",
   "IF_EQZ", "IF_NEZ", "IF_GTZ", "IF_GEZ", "IF_LTZ", "IF_LEZ"}
Switches == {"PACKED_SWITCH", "SPARSE_SWITCH"}
StraightLine ==
  {"NOP", "RETURN_VOID", "INVOKE_STATIC", "INVOKE_DIRECT", "INVOKE_SUPER"}

\* Instruction::SizeInCodeUnits() for the instruction formats above
\* (10x/10t: 1, 20t/21t/22t: 2, 30t/31t/35c/3rc: 3).
SizeInCodeUnits(op) ==
  CASE op \in {"NOP", "RETURN_VOID", "GOTO"} -> 1
    [] op \in IfCases \cup {"GOTO_16"} -> 2
    [] OTHER -> 3

\* packed-switch-payload: ident, size, first_key (2 units), targets.
PackedSwitchPayload(first_key, targets) ==
  <<256, Len(targets)>> \o Int32Units(first_key) \o FlattenInt32(targets)

\* sparse-switch-payload: ident, size, keys (sorted), targets.
SparseSwitchPayload(keys, targets) ==
  <<512, Len(targets)>> \o FlattenInt32(keys) \o FlattenInt32(targets)

\* ------------------------------------------------------------------ state
VARIABLES
  phase,              \* "scan", "tries", "lists", "alloc", "live", "nomem", "fatal"
  code_end,           \* code_item.insns_size_in_code_units_
  tries_size_,        \* code_item.tries_size_
  dex_pc,             \* Create: offset of the instruction being decoded
  entries,            \* Create: std::vector<uint32_t> entries
  dex_pc_bb_starts,   \* Create: std::set<uint32_t> dex_pc_bb_starts
  try_i,              \* Create: index i of the loop over the try items
  dex_pcs,            \* Create: std::vector<uint32_t> dex_pcs
  invokes,            \* history: offsets of the virtual/interface invokes decoded
  targets,            \* history: branch/switch targets and fall-throughs decoded
  handlers,           \* history: the catch-handler addresses iterated
  kIsDebugBuild,      \* whether DCHECKs are compiled in
  cache_,             \* ProfilingInfo::cache_: the InlineCache array
  bb_counts,          \* ProfilingInfo::GetBBCounts(): the BBCounts array
  holding_class_,     \* ProfilingInfo::holding_class_
  thr,                \* per thread: the call it is in and its locals
  calls,              \* history: calls started
  published,          \* history: successful compare-and-swaps
  notified,           \* history: WriteBarrierEveryFieldOf calls
  returned,           \* history: <<cache index, class>> of the AddInvokeInfo calls that returned
  serial,             \* whether one caller runs alone, its consecutive calls recorded in prev
  audit,              \* whether the threads record the history of their retry loop
  prev                \* history: the last call that returned, while no one wrote since

VARIABLES
  cloning_enabled_,          \* HInstructionCloner::cloning_enabled_
  all_cloned_okay_,          \* HInstructionCloner::all_cloned_okay_
  use_cloned_inputs_,        \* HInstructionCloner::use_cloned_inputs_
  allow_overwrite_,          \* HInstructionCloner::allow_overwrite_
  orig_to_clone_,            \* SafeMap<HInstruction*, HInstruction*>: set of <<original, clone>>
  manual_clones_,            \* std::set<HInstruction*> manual_clones_
  debug_name_failed_clone_,  \* const char* debug_name_failed_clone_
  instructions,              \* the HInstructions allocated in the graph's arena
  pass                       \* history of the cloning pass

clonerVars ==
  <<cloning_enabled_, all_cloned_okay_, use_cloned_inputs_, allow_overwrite_,
    orig_to_clone_, manual_clones_, debug_name_failed_clone_, instructions,
    pass>>

createVars ==
  <<phase, code_end, tries_size_, dex_pc, entries, dex_pc_bb_starts, try_i,
    dex_pcs, invokes, targets, handlers>>

\* --------------------------------------------------- the bytecode source
\* Branch offsets (Instruction::GetTargetOffset(), in code units, relative
\* to the instruction) that lead to an offset inside the code array.
RelTargets(pc) == {a - pc : a \in 0 .. code_end - 1}

\* Sequences of at most n elements of S.
SeqsUpTo(S, n) == UNION {[1 .. k -> S] : k \in 0 .. n}

SwitchKey(i) == 40 + i

\* The instructions Instruction::At(code_ptr) can yield at offset pc: opcode,
\* branch offset, and for a switch the payload its operand B points at
\* (cases: the relative case targets the payload was assembled from).
InstructionsAt(pc) ==
  LET plain == {[op |-> o, off |-> 0, cases |-> <<>>, payload |-> <<>>] :
                   o \in VirtualOrInterfaceInvokes \cup StraightLine}
      branch == {[op |-> o, off |-> d, cases |-> <<>>, payload |-> <<>>] :
                   o \in UnconditionalJumps \cup ConditionalBranches,
                   d \in RelTargets(pc)}
      packed == {[op |-> "PACKED_SWITCH", off |-> 0, cases |-> cs,
                  payload |-> PackedSwitchPayload(SwitchKey(0), cs)] :
                   cs \in SeqsUpTo(RelTargets(pc), MaxCases)}
      sparse == {[op |-> "SPARSE_SWITCH", off |-> 0, cases |-> cs,
                  payload |-> SparseSwitchPayload(
                                [i \in 1 .. Len(cs) |-> SwitchKey(i)], cs)] :
                   cs \in SeqsUpTo(RelTargets(pc), MaxCases)}
  IN  {ins \in plain \cup branch \cup packed \cup sparse :
         pc + SizeInCodeUnits(ins.op) <= code_end}

\* The catch-handler addresses CatchHandlerIterator yields for one try item.
HandlerLists == SeqsUpTo(0 .. code_end - 1, MaxHandlers)

\* What the instruction `ins` at offset `pc` makes a block start, by the dex
\* semantics of its opcode (offsets are relative to the instruction).
BranchTargets(ins, pc) ==
  CASE ins.op \in UnconditionalJumps -> {pc + ins.off}
    [] ins.op \in ConditionalBranches ->
         {pc + SizeInCodeUnits(ins.op), pc + ins.off}
    [] ins.op \in Switches ->
         {pc + SizeInCodeUnits(ins.op)} \cup
         {pc + ins.cases[i] : i \in 1 .. Len(ins.cases)}
    [] OTHER -> {}

\* No HInstructionCloner exists.
NoCloner ==
  /\ cloning_enabled_ = FALSE
  /\ all_cloned_okay_ = TRUE
  /\ use_cloned_inputs_ = FALSE
  /\ allow_overwrite_ = FALSE
  /\ orig_to_clone_ = {}
  /\ manual_clones_ = {}
  /\ debug_name_failed_clone_ = ""
  /\ instructions = <<>>
  /\ pass = <<>>

\* ------------------------------------------------- ProfilingInfo::Create
\* BlockStartInserts without the fall-through insert of the IF_* cases.
BlockStartInserts_NoFallThrough(ins, pc) ==
  CASE ins.op \in GotoCases ->
         {U32Add(pc, ins.off)}
    [] ins.op \in IfCases ->
         {U32Add(pc, ins.off)}
    [] ins.op = "PACKED_SWITCH" ->
         LET switch_data == ins.payload
             size == switch_data[2]
         IN  {U32Add(pc, 3)} \cup
             {U32Add(pc, ReadInt32(switch_data, 4 + 2 * i)) : i \in 0 .. size - 1}
    [] ins.op = "SPARSE_SWITCH" ->
         LET switch_data == ins.payload
             size == switch_data[2]
         IN  {U32Add(pc, 3)} \cup
             {U32Add(pc, ReadInt32(switch_data, 2 + 2 * size + 2 * i)) :
                i \in 0 .. size - 1}
    [] OTHER -> {}

\* The offsets the switch statement inserts into dex_pc_bb_starts for the
\* instruction `ins` decoded at `pc`.
BlockStartInserts(ins, pc) ==
  CASE ins.op \in GotoCases ->
         {U32Add(pc, ins.off)}
    [] ins.op \in IfCases ->
         {U32Add(pc, SizeInCodeUnits(ins.op)), U32Add(pc, ins.off)}
    [] ins.op = "PACKED_SWITCH" ->
         LET switch_data == ins.payload
             size == switch_data[2]
         IN  {U32Add(pc, 3)} \cup
             {U32Add(pc, ReadInt32(switch_data, 4 + 2 * i)) : i \in 0 .. size - 1}
    [] ins.op = "SPARSE_SWITCH" ->
         LET switch_data == ins.payload
             size == switch_data[2]
         IN  {U32Add(pc, 3)} \cup
             {U32Add(pc, ReadInt32(switch_data, 2 + 2 * size + 2 * i)) :
                i \in 0 .. size - 1}
    [] OTHER -> {}

\* IsInlineCacheEntry without the case labels of the /range encodings.
IsInlineCacheEntry_NoRange(ins) ==
  ins.op \in InvokeCases \ {"INVOKE_VIRTUAL_RANGE", "INVOKE_INTERFACE_RANGE"}

\* Whether the switch statement appends the offset of `ins` to entries.
IsInlineCacheEntry(ins) == ins.op \in InvokeCases

\* One iteration of the while loop over the code array.
ScanInstruction ==
  /\ UNCHANGED clonerVars
  /\ phase = "scan"
  /\ U32Less(dex_pc, code_end)
  /\ \E ins \in InstructionsAt(dex_pc) :
       /\ entries' = IF IsInlineCacheEntry(ins) THEN Append(entries, dex_pc)
                     ELSE entries
       /\ dex_pc_bb_starts' = dex_pc_bb_starts \cup BlockStartInserts(ins, dex_pc)
       /\ dex_pc' = U32Add(dex_pc, SizeInCodeUnits(ins.op))
       /\ invokes' = IF ins.op \in VirtualOrInterfaceInvokes
                     THEN Append(invokes, dex_pc) ELSE invokes
       /\ targets' = targets \cup BranchTargets(ins, dex_pc)
  /\ UNCHANGED <<phase, code_end, tries_size_, try_i, dex_pcs, handlers>>
  /\ UNCHANGED <<kIsDebugBuild, cache_, bb_counts, holding_class_, thr, calls,
                 published, notified, returned, serial, audit, prev>>

\* The while loop ends; "if (code_item.tries_size_ > 0)".
ScanEnd ==
  /\ UNCHANGED clonerVars
  /\ phase = "scan"
  /\ ~U32Less(dex_pc, code_end)
  /\ phase' = IF tries_size_ > 0 THEN "tries" ELSE "lists"
  /\ UNCHANGED <<code_end, tries_size_, dex_pc, entries, dex_pc_bb_starts,
                 try_i, dex_pcs, invokes, targets, handlers>>
  /\ UNCHANGED <<kIsDebugBuild, cache_, bb_counts, holding_class_, thr, calls,
                 published, notified, returned, serial, audit, prev>>

RECURSIVE SeqToSet(_)
SeqToSet(s) == IF s = <<>> THEN {} ELSE {Head(s)} \cup SeqToSet(Tail(s))

\* One iteration of the loop over the try items: every handler of the item.
AddCatchClauses ==
  /\ UNCHANGED clonerVars
  /\ phase = "tries"
  /\ \E hs \in HandlerLists :
       /\ dex_pc_bb_starts' = dex_pc_bb_starts \cup SeqToSet(hs)
       /\ handlers' = handlers \cup SeqToSet(hs)
  /\ try_i' = try_i + 1
  /\ phase' = IF try_i + 1 < tries_size_ THEN "tries" ELSE "lists"
  /\ UNCHANGED <<code_end, tries_size_, dex_pc, entries, dex_pcs, invokes,
                 targets>>
  /\ UNCHANGED <<kIsDebugBuild, cache_, bb_counts, holding_class_, thr, calls,
                 published, notified, returned, serial, audit, prev>>

\* Iteration order of std::set<uint32_t>: ascending.
RECURSIVE SetInOrder(_)
SetInOrder(S) ==
  IF S = {} THEN <<>>
  ELSE LET m == CHOOSE x \in S : \A y \in S \ {x} : U32Less(x, y)
       IN  <<m>> \o SetInOrder(S \ {m})

\* "Create the list of BB targets from the set."
CreateList ==
  /\ UNCHANGED clonerVars
  /\ phase = "lists"
  /\ dex_pcs' = SetInOrder(dex_pc_bb_starts)
  /\ phase' = "alloc"
  /\ UNCHANGED <<code_end, tries_size_, dex_pc, entries, dex_pc_bb_starts,
                 try_i, invokes, targets, handlers>>
  /\ UNCHANGED <<kIsDebugBuild, cache_, bb_counts, holding_class_, thr, calls,
                 published, notified, returned, serial, audit, prev>>

\* --------------------------------------------------------- ProfilingInfo
profileVars == <<kIsDebugBuild, cache_, bb_counts, holding_class_>>
historyVars == <<calls, published, notified, returned, serial, audit, prev>>
vars == <<createVars, profileVars, thr, historyVars, clonerVars>>

NULL == 0
Types == 1 .. NumTypes
Threads == 1 .. NumThreads
Slots == 0 .. kIndividualCacheSize - 1
\* method->GetDeclaringClass() of the profiled method.
DeclaringClass == 1

\* A thread outside AddInvokeInfo and IncrementBBCount. Parameters and
\* locals: dex_pc, cls, cache (index of the InlineCache, 0: nullptr), i, val
\* (the count_ fetched). History, kept for a lone caller: old (count_ at
\* entry), rep (the call repeats prev, nothing written since prev returned),
\* dirty (the collector cleared a slot during this call). History of every
\* caller, about slot i in this call: reads (reads done), tries
\* (compare-and-swaps that failed), beaten (another thread has published into
\* the slot since this thread read it as empty).
Idle ==
  [pc |-> "idle", dex_pc |-> 0, cache |-> 0, cls |-> NULL, i |-> 0, val |-> 0,
   old |-> 0, rep |-> FALSE, dirty |-> FALSE, reads |-> 0, tries |-> 0,
   beaten |-> FALSE]

None ==
  [op |-> "none", cache |-> 0, cls |-> NULL, i |-> 0, old |-> 0, new |-> 0,
   snap |-> <<>>, published |-> 0, notified |-> 0, twice |-> FALSE]

\* The constructor: memset of cache_, dex_pc_ of every inline cache, dex_pc_
\* and count_ of every BBCounts.
ProfilingInfo(es, pcs) ==
  [cache  |-> [i \in 1 .. Len(es) |->
                 [dex_pc_ |-> es[i], classes_ |-> [s \in Slots |-> NULL]]],
   counts |-> [i \in 1 .. Len(pcs) |->
                 [dex_pc_ |-> pcs[i], count_ |-> 0]],
   holding_class_ |-> DeclaringClass]

\* JitCodeCache::AddProfilingInfo allocates and constructs the ProfilingInfo;
\* Create returns true.
AddProfilingInfo ==
  /\ UNCHANGED clonerVars
  /\ phase = "alloc"
  /\ LET info == ProfilingInfo(entries, dex_pcs)
     IN  /\ cache_' = info.cache
         /\ bb_counts' = info.counts
         /\ holding_class_' = info.holding_class_
         /\ phase' = IF kIsDebugBuild /\ info.holding_class_ = NULL
                     THEN "fatal" ELSE "live"
  /\ UNCHANGED <<code_end, tries_size_, dex_pc, entries, dex_pc_bb_starts,
                 try_i, dex_pcs, invokes, targets, handlers, kIsDebugBuild,
                 thr, historyVars>>

\* The JIT data space is exhausted: AddProfilingInfo returns nullptr and
\* Create returns false.
AddProfilingInfoFails ==
  /\ UNCHANGED clonerVars
  /\ phase = "alloc"
  /\ phase' = "nomem"
  /\ UNCHANGED <<code_end, tries_size_, dex_pc, entries, dex_pc_bb_starts,
                 try_i, dex_pcs, invokes, targets, handlers, profileVars,
                 thr, historyVars>>

\* GetInlineCache without the comparison of dex_pc_: the first inline cache.
GetInlineCache_First(pc) == IF Len(cache_) = 0 THEN 0 ELSE 1

\* Index of the first inline cache whose dex_pc_ is pc; 0 stands for nullptr.
GetInlineCache(pc) ==
  LET hits == {i \in 1 .. Len(cache_) : cache_[i].dex_pc_ = pc}
  IN  IF hits = {} THEN 0 ELSE CHOOSE i \in hits : \A j \in hits : i <= j

\* The offsets callers pass: those of the method's instructions of interest.
DexPcArgs == SeqToSet(entries) \cup SeqToSet(dex_pcs)

Return(t) == [thr EXCEPT ![t] = Idle]

\* The history of the AddInvokeInfo calls that returned, once thread t's call
\* has; it is not kept while the threads record their retry loops.
Returns(t) ==
  IF audit THEN returned ELSE returned \cup {<<thr[t].cache, thr[t].cls>>}

\* prev once thread t's call `op` has returned, leaving the inline caches c,
\* the counters b and the history counters p and n.
Returned(t, op, c, b, p, n) ==
  IF ~serial THEN prev
  ELSE IF thr[t].dirty THEN None
  ELSE IF thr[t].rep THEN [prev EXCEPT !.twice = TRUE]
  ELSE [op |-> op, cache |-> thr[t].cache, cls |-> thr[t].cls, i |-> thr[t].i,
        old |-> thr[t].old,
        new |-> IF op = "IncrementBBCount" THEN b[thr[t].i].count_ ELSE 0,
        snap |-> c, published |-> p, notified |-> n, twice |-> FALSE]

\* prev once a call begins. A call that finds no inline cache or no counter
\* for its dex_pc is recorded at once (op "AddInvokeInfo/nullptr" or
\* "IncrementBBCount/nomatch"); any other call ends such a record.
Entered(op, found) ==
  IF ~serial THEN prev
  ELSE IF ~found THEN [None EXCEPT !.op = op]
  ELSE IF prev.op \in {"AddInvokeInfo/nullptr", "IncrementBBCount/nomatch"}
    THEN None
  ELSE [prev EXCEPT !.twice = FALSE]

\* ------------------------------------------- ProfilingInfo::AddInvokeInfo
\* Entry: GetInlineCache, the CHECK, and i = 0.
AddInvokeInfo(t) ==
  /\ UNCHANGED clonerVars
  /\ phase = "live"
  /\ thr[t].pc = "idle"
  /\ calls < (IF audit THEN MaxRaceCalls ELSE MaxCalls)
  /\ calls' = calls + 1
  /\ \E pc \in DexPcArgs, cls \in Types :
       LET cache == GetInlineCache(pc)
       IN  IF cache = 0
           THEN /\ phase' = "fatal"
                /\ thr' = thr
                /\ prev' = Entered("AddInvokeInfo/nullptr", FALSE)
           ELSE /\ phase' = phase
                /\ thr' = [thr EXCEPT ![t] =
                     [Idle EXCEPT !.pc = "ic_read", !.dex_pc = pc,
                                  !.cache = cache, !.cls = cls,
                                  !.rep = /\ prev.op = "AddInvokeInfo"
                                          /\ prev.cache = cache
                                          /\ prev.cls = cls]]
                /\ prev' = Entered("AddInvokeInfo", TRUE)
  /\ UNCHANGED <<code_end, tries_size_, dex_pc, entries, dex_pc_bb_starts,
                 try_i, dex_pcs, invokes, targets, handlers, profileVars,
                 published, notified, returned, serial, audit>>

\* NextSlot with the loop bound one too small.
NextSlot_StopsEarly(t, i) ==
  IF i + 1 < kIndividualCacheSize - 1
  THEN [thr EXCEPT ![t].i = i + 1, ![t].pc = "ic_read", ![t].reads = 0,
                   ![t].tries = 0, ![t].beaten = FALSE]
  ELSE Return(t)

\* The for statement's "++i" and "i < InlineCache::kIndividualCacheSize":
\* the next read, or the end of the loop (the cache is megamorphic).
NextSlot(t, i) ==
  IF i + 1 < kIndividualCacheSize
  THEN [thr EXCEPT ![t].i = i + 1, ![t].pc = "ic_read", ![t].reads = 0,
                   ![t].tries = 0, ![t].beaten = FALSE]
  ELSE Return(t)

\* Examine without the "existing == cls" test.
Examine_IgnoresMatch(t, existing) ==
  IF existing = NULL
  THEN [thr EXCEPT ![t].pc = "ic_cas", ![t].reads = IF audit THEN @ + 1 ELSE @]
  ELSE NextSlot(t, thr[t].i)

\* Examine that passes over an empty slot unless it is the last one.
Examine_PassesEmpty(t, existing) ==
  IF existing = thr[t].cls THEN Return(t)
  ELSE IF existing = NULL /\ thr[t].i = kIndividualCacheSize - 1
    THEN [thr EXCEPT ![t].pc = "ic_cas",
                     ![t].reads = IF audit THEN @ + 1 ELSE @]
  ELSE NextSlot(t, thr[t].i)

\* What the loop body does with the value read from classes_[i].
Examine(t, existing) ==
  IF existing = thr[t].cls THEN Return(t)
  ELSE IF existing = NULL
    THEN [thr EXCEPT ![t].pc = "ic_cas",
                     ![t].reads = IF audit THEN @ + 1 ELSE @]
  ELSE NextSlot(t, thr[t].i)

\* "existing = cache->classes_[i].Read()" and the two comparisons.
ReadSlot(t) ==
  /\ UNCHANGED clonerVars
  /\ phase = "live"
  /\ thr[t].pc = "ic_read"
  /\ thr' = Examine(t, cache_[thr[t].cache].classes_[thr[t].i])
  /\ IF thr'[t].pc = "idle"
     THEN /\ returned' = Returns(t)
          /\ prev' = Returned(t, "AddInvokeInfo", cache_, bb_counts, published,
                              notified)
     ELSE UNCHANGED <<returned, prev>>
  /\ UNCHANGED <<createVars, profileVars, calls, published, notified, serial, audit>>

\* RetrySlot without "--i": the loop goes on to the next slot.
RetrySlot_Advances(t, i) == NextSlot(t, i)

\* The thread's state after a failed compare-and-swap on slot i: "--i", then
\* the for statement's "++i" and test (size_t arithmetic, written modulo 2^64
\* by its two's complement reading: 0 - 1 is -1).
RetrySlot(t, i) ==
  [NextSlot(t, i - 1) EXCEPT ![t].reads = thr[t].reads,
                             ![t].tries = IF audit THEN thr[t].tries + 1
                                          ELSE thr[t].tries]

\* CompareExchange as a plain store to classes_[i].
PlainStore(t) ==
  /\ UNCHANGED clonerVars
  /\ phase = "live"
  /\ thr[t].pc = "ic_cas"
  /\ cache_' = [cache_ EXCEPT ![thr[t].cache].classes_[thr[t].i] = thr[t].cls]
  /\ published' = published + 1
  /\ thr' = [u \in Threads |->
               IF u = t THEN [thr[t] EXCEPT !.pc = "ic_barrier"]
               ELSE [thr[u] EXCEPT !.rep = FALSE]]
  /\ UNCHANGED <<createVars, kIsDebugBuild, bb_counts, holding_class_, calls,
                 notified, returned, serial, audit, prev>>

\* CompareExchange as a weak compare-and-swap, which may fail on an empty slot.
CompareExchange_Weak(t) ==
  /\ UNCHANGED clonerVars
  /\ phase = "live"
  /\ thr[t].pc = "ic_cas"
  /\ \E spurious \in BOOLEAN :
       IF cache_[thr[t].cache].classes_[thr[t].i] = NULL /\ ~spurious
       THEN /\ cache_' = [cache_ EXCEPT
                           ![thr[t].cache].classes_[thr[t].i] = thr[t].cls]
            /\ published' = published + 1
            /\ thr' = [thr EXCEPT ![t].pc = "ic_barrier"]
       ELSE /\ thr' = RetrySlot(t, thr[t].i)
            /\ UNCHANGED <<cache_, published>>
  /\ UNCHANGED <<createVars, kIsDebugBuild, bb_counts, holding_class_, calls,
                 notified, returned, serial, audit, prev>>

\* CompareExchangeStrongSequentiallyConsistent(nullptr, cls) on classes_[i].
CompareExchange(t) ==
  /\ UNCHANGED clonerVars
  /\ phase = "live"
  /\ thr[t].pc = "ic_cas"
  /\ LET c == thr[t].cache
         i == thr[t].i
     IN  IF cache_[c].classes_[i] = NULL
         THEN /\ cache_' = [cache_ EXCEPT ![c].classes_[i] = thr[t].cls]
              /\ published' = published + 1
              /\ thr' = [u \in Threads |->
                           IF u = t THEN [thr[t] EXCEPT !.pc = "ic_barrier"]
                           ELSE [thr[u] EXCEPT
                                   !.rep = FALSE,
                                   !.beaten = \/ @
                                              \/ /\ audit
                                                 /\ thr[u].pc = "ic_cas"
                                                 /\ thr[u].cache = c
                                                 /\ thr[u].i = i]]
         ELSE /\ thr' = RetrySlot(t, i)
              /\ UNCHANGED <<cache_, published>>
  /\ UNCHANGED <<createVars, kIsDebugBuild, bb_counts, holding_class_, calls,
                 notified, returned, serial, audit, prev>>

\* MarksCard with the test of holding_class_ inverted.
MarksCard_Inverted == holding_class_ = NULL

\* Whether the publishing thread marks the card of the holding class:
\* "if (!holding_class_.IsNull())".
MarksCard == holding_class_ # NULL

\* WriteBarrierEveryFieldOf(holding_class_.Read()), and return.
WriteBarrier(t) ==
  /\ UNCHANGED clonerVars
  /\ phase = "live"
  /\ thr[t].pc = "ic_barrier"
  /\ notified' = IF MarksCard THEN notified + 1 ELSE notified
  /\ thr' = Return(t)
  /\ returned' = Returns(t)
  /\ prev' = Returned(t, "AddInvokeInfo", cache_, bb_counts, published, notified')
  /\ UNCHANGED <<createVars, profileVars, calls, published, serial, audit>>

\* The garbage collector clears one occupied slot (the class was unloaded).
CollectorClears ==
  /\ UNCHANGED clonerVars
  /\ phase = "live"
  /\ \E c \in 1 .. Len(cache_), s \in Slots :
       /\ cache_[c].classes_[s] # NULL
       /\ cache_' = [cache_ EXCEPT ![c].classes_[s] = NULL]
  /\ thr' = [u \in Threads |->
               [thr[u] EXCEPT !.rep = FALSE,
                              !.dirty = serial /\ thr[u].pc # "idle"]]
  /\ prev' = None
  /\ UNCHANGED <<createVars, kIsDebugBuild, bb_counts, holding_class_, calls,
                 published, notified, returned, serial, audit>>

\* ---------------------------------------- ProfilingInfo::IncrementBBCount
\* FindBBCount without the comparison of dex_pc_: the first counter.
FindBBCount_First(pc) == IF Len(bb_counts) = 0 THEN 0 ELSE 1

\* Index of the first BBCounts whose dex_pc_ is pc; 0 when the loop ends
\* without a match.
FindBBCount(pc) ==
  LET hits == {i \in 1 .. Len(bb_counts) : bb_counts[i].dex_pc_ = pc}
  IN  IF hits = {} THEN 0 ELSE CHOOSE i \in hits : \A j \in hits : i <= j

\* Entry and the linear search; without a match DCHECK(false), which aborts
\* a debug build and is compiled out of a release build.
IncrementBBCount(t) ==
  /\ UNCHANGED clonerVars
  /\ phase = "live"
  /\ thr[t].pc = "idle"
  /\ calls < MaxCalls
  /\ calls' = calls + 1
  /\ \E pc \in DexPcArgs :
       LET i == FindBBCount(pc)
       IN  IF i = 0
           THEN /\ phase' = IF kIsDebugBuild THEN "fatal" ELSE phase
                /\ thr' = thr
                /\ prev' = Entered("IncrementBBCount/nomatch", FALSE)
           ELSE /\ phase' = phase
                /\ thr' = [thr EXCEPT ![t] =
                     [Idle EXCEPT !.pc = "bb_cmp", !.dex_pc = pc, !.i = i,
                                  !.old = IF serial THEN bb_counts[i].count_
                                          ELSE 0]]
                /\ prev' = Entered("IncrementBBCount", TRUE)
  /\ UNCHANGED <<code_end, tries_size_, dex_pc, entries, dex_pc_bb_starts,
                 try_i, dex_pcs, invokes, targets, handlers, profileVars,
                 published, notified, returned, serial, audit>>

\* "if (counts[i].count_ != std::numeric_limits<uint32_t>::max())".
CompareCount(t) ==
  /\ UNCHANGED clonerVars
  /\ phase = "live"
  /\ thr[t].pc = "bb_cmp"
  /\ LET count == bb_counts[thr[t].i].count_
     IN  thr' = IF count # UINT32_MAX
                THEN [thr EXCEPT ![t].pc = "bb_load", ![t].val = count]
                ELSE Return(t)
  /\ prev' = IF thr'[t].pc = "idle"
             THEN Returned(t, "IncrementBBCount", cache_, bb_counts, published,
                           notified)
             ELSE prev
  /\ UNCHANGED <<createVars, profileVars, calls, published, notified, returned,
                 serial, audit>>

\* "counts[i].count_++" is a plain read-modify-write of a uint32_t that other
\* threads write without synchronization. The load of the increment: the
\* compiler either fetches count_ again or keeps the value the comparison
\* fetched.
LoadCount(t) ==
  /\ UNCHANGED clonerVars
  /\ phase = "live"
  /\ thr[t].pc = "bb_load"
  /\ \E v \in {thr[t].val, bb_counts[thr[t].i].count_} :
       thr' = [thr EXCEPT ![t].pc = "bb_store", ![t].val = v]
  /\ UNCHANGED <<createVars, profileVars, historyVars>>

\* Incremented by two.
Incremented_ByTwo(v) == U32Add(v, 2)

\* The value "count_++" stores.
Incremented(v) == U32Add(v, 1)

\* The store of the increment, and return.
StoreCount(t) ==
  /\ UNCHANGED clonerVars
  /\ phase = "live"
  /\ thr[t].pc = "bb_store"
  /\ bb_counts' = [bb_counts EXCEPT ![thr[t].i].count_ = Incremented(thr[t].val)]
  /\ thr' = Return(t)
  /\ prev' = Returned(t, "IncrementBBCount", cache_, bb_counts', published,
                      notified)
  /\ UNCHANGED <<createVars, kIsDebugBuild, cache_, holding_class_, calls,
                 published, notified, returned, serial, audit>>

\* ---------------------------------------------------------- specifications
\* "Method entry starts a block": dex_pc_bb_starts.insert(0).
MethodEntry == {0}

NoThreads == [t \in Threads |-> Idle]

\* Create is entered for a method of code_end code units and tries_size_ try
\* items.
InitCreate ==
  /\ NoCloner
  /\ phase = "scan"
  /\ code_end \in 1 .. MaxCodeUnits
  /\ tries_size_ \in 0 .. MaxTries
  /\ dex_pc = 0
  /\ entries = <<>>
  /\ dex_pc_bb_starts = MethodEntry
  /\ try_i = 0
  /\ dex_pcs = <<>>
  /\ invokes = <<>>
  /\ targets = {}
  /\ handlers = {}
  /\ kIsDebugBuild \in BOOLEAN
  /\ cache_ = <<>>
  /\ bb_counts = <<>>
  /\ holding_class_ = NULL
  /\ thr = NoThreads
  /\ calls = 0
  /\ published = 0
  /\ notified = 0
  /\ returned = {}
  /\ serial = FALSE
  /\ audit = FALSE
  /\ prev = None

NextCreate ==
  \/ ScanInstruction
  \/ ScanEnd
  \/ AddCatchClauses
  \/ CreateList
  \/ AddProfilingInfo
  \/ AddProfilingInfoFails

SpecCreate == InitCreate /\ [][NextCreate]_vars

\* Two methods as Create leaves them when it calls AddProfilingInfo:
\*   0: nop, 1: invoke-virtual, 4: goto -> 0
\*   0: invoke-virtual, 3: invoke-interface, 6: if-eqz -> 0, 8: return-void
OneSite == [code_end |-> 5, entries |-> <<1>>, starts |-> {0}]
TwoSites == [code_end |-> 9, entries |-> <<0, 3>>, starts |-> {0, 8}]

\* Create has analysed method m; `one` tells whether one caller runs alone,
\* `aud` whether the threads record the history of their retry loop.
Prepared(m, one, aud) ==
  /\ NoCloner
  /\ phase = "alloc"
  /\ code_end = m.code_end
  /\ dex_pc = m.code_end
  /\ entries = m.entries
  /\ invokes = m.entries
  /\ dex_pc_bb_starts = m.starts
  /\ targets = m.starts
  /\ dex_pcs = SetInOrder(m.starts)
  /\ tries_size_ = 0
  /\ try_i = 0
  /\ handlers = {}
  /\ kIsDebugBuild \in BOOLEAN
  /\ cache_ = <<>>
  /\ bb_counts = <<>>
  /\ holding_class_ = NULL
  /\ thr = NoThreads
  /\ calls = 0
  /\ published = 0
  /\ notified = 0
  /\ returned = {}
  /\ serial = one
  /\ audit = aud
  /\ prev = None

Analysed(m, one) == Prepared(m, one, FALSE)

Init == Analysed(OneSite, FALSE)

ThreadStep(t) ==
  \/ AddInvokeInfo(t)
  \/ ReadSlot(t)
  \/ CompareExchange(t)
  \/ WriteBarrier(t)
  \/ IncrementBBCount(t)
  \/ CompareCount(t)
  \/ LoadCount(t)
  \/ StoreCount(t)

\* The profile is created, then threads update it while the collector runs.
Next ==
  \/ AddProfilingInfo
  \/ AddProfilingInfoFails
  \/ \E t \in Threads : ThreadStep(t)
  \/ CollectorClears

Spec == Init /\ [][Next]_vars

\* The same without the collector clearing entries.
NextNoGC ==
  \/ AddProfilingInfo
  \/ AddProfilingInfoFails
  \/ \E t \in Threads : ThreadStep(t)

SpecNoGC == Init /\ [][NextNoGC]_vars

\* AddInvokeInfo alone: threads race for the slots of one inline cache while
\* the collector runs, each recording the history of its retry loop. The
\* build is a release build: AddInvokeInfo has no debug-only code.
InitRace == Prepared(OneSite, FALSE, TRUE) /\ ~kIsDebugBuild

InvokeStep(t) ==
  \/ AddInvokeInfo(t)
  \/ ReadSlot(t)
  \/ CompareExchange(t)
  \/ WriteBarrier(t)

NextRace ==
  \/ AddProfilingInfo
  \/ AddProfilingInfoFails
  \/ \E t \in Threads : InvokeStep(t)
  \/ CollectorClears

SpecRace == InitRace /\ [][NextRace]_vars

\* The same under a scheduler that lets every thread run (each thread is a
\* kernel thread; nothing in AddInvokeInfo waits for another thread).
SpecRaceFair == SpecRace /\ \A t \in Threads : WF_vars(InvokeStep(t))

\* One caller alone (thread 1), with the collector, on either method.
InitSeq == Analysed(OneSite, TRUE) \/ Analysed(TwoSites, TRUE)

NextSeq ==
  \/ AddProfilingInfo
  \/ AddProfilingInfoFails
  \/ ThreadStep(1)
  \/ CollectorClears

SpecSeq == InitSeq /\ [][NextSeq]_vars

\* IncrementBBCount alone, on a profile whose counters have been running:
\* count_ of each is 0, 2^31 - 1, 2^32 - 2 or 2^32 - 1.
CounterValues == {0, INT32_MAX, UINT32_MAX - 1, UINT32_MAX}

Counting(one) ==
  /\ NoCloner
  /\ phase = "live"
  /\ code_end = TwoSites.code_end
  /\ dex_pc = TwoSites.code_end
  /\ entries = TwoSites.entries
  /\ invokes = TwoSites.entries
  /\ dex_pc_bb_starts = TwoSites.starts
  /\ targets = TwoSites.starts
  /\ dex_pcs = SetInOrder(TwoSites.starts)
  /\ tries_size_ = 0
  /\ try_i = 0
  /\ handlers = {}
  /\ kIsDebugBuild \in BOOLEAN
  /\ LET info == ProfilingInfo(entries, dex_pcs)
     IN  /\ cache_ = info.cache
         /\ holding_class_ = info.holding_class_
         /\ \E v \in [1 .. Len(info.counts) -> CounterValues] :
              bb_counts = [i \in 1 .. Len(info.counts) |->
                             [info.counts[i] EXCEPT !.count_ = v[i]]]
  /\ thr = NoThreads
  /\ calls = 0
  /\ published = 0
  /\ notified = 0
  /\ returned = {}
  /\ serial = one
  /\ audit = FALSE
  /\ prev = None

BBStep(t) ==
  \/ IncrementBBCount(t)
  \/ CompareCount(t)
  \/ LoadCount(t)
  \/ StoreCount(t)

\* Threads increment the counters concurrently.
InitBB == Counting(FALSE)
NextBB == \E t \in Threads : BBStep(t)
SpecBB == InitBB /\ [][NextBB]_vars

\* One caller alone increments the counters.
InitBBSeq == Counting(TRUE)
NextBBSeq == BBStep(1)
SpecBBSeq == InitBBSeq /\ [][NextBBSeq]_vars

\* ------------------------------------------------------ HInstructionCloner
\* Operations of one cloning pass.
MaxOps == 4

\* Instruction kinds with an out-of-line visitor (cloneable), a sample of them.
Cloneable == {"Add", "Neg", "NullCheck"}

\* Instruction kinds whose visitor calls UnsupportedInstruction.
IntentionallyUnsupported ==
  {"AddLHSMemory", "AddRHSMemory", "CurrentMethod", "DivRHSMemory",
   "DoubleConstant", "Exit", "FloatConstant", "IntConstant", "LongConstant",
   "MulRHSMemory", "NullConstant", "ParallelMove", "ParameterValue",
   "SubRHSMemory", "X86ComputeBaseMethodAddress"}

\* An HInstruction: its kind, its inputs, and its chain of HEnvironments
\* (innermost first), each the sequence of the values it captures (NULL for
\* an empty vreg). Instructions are named by their index in `instructions`.
HInstruction(kind, inputs, env) ==
  [kind |-> kind, inputs |-> inputs, env |-> env]

\* Two graphs: nodes, the straight-line region a pass clones, and nodes built
\* by the caller to stand in as clones.
\*   1: ParameterValue, 2: Neg(1), 3: Add(2, 1), 4: NullCheck(3) with the
\*   environment chain [3, 1, null] -> [2], 5: Neg(1)
\*   1: IntConstant, 2: ParallelMove, 3: Add(1, 1), 4: MultiplyAccumulate,
\*   5: Add(1, 1)
SampleGraphs ==
  {[nodes  |-> <<HInstruction("ParameterValue", <<>>, <<>>),
                 HInstruction("Neg", <<1>>, <<>>),
                 HInstruction("Add", <<2, 1>>, <<>>),
                 HInstruction("NullCheck", <<3>>, <<(<<3, 1, NULL>>), (<<2>>)>>),
                 HInstruction("Neg", <<1>>, <<>>)>>,
    region |-> <<2, 3, 4>>,
    spare  |-> {5}],
   [nodes  |-> <<HInstruction("IntConstant", <<>>, <<>>),
                 HInstruction("ParallelMove", <<>>, <<>>),
                 HInstruction("Add", <<1, 1>>, <<>>),
                 HInstruction("MultiplyAccumulate", <<1, 1, 3>>, <<>>),
                 HInstruction("Add", <<1, 1>>, <<>>)>>,
    region |-> <<3>>,
    spare  |-> {5}]}

\* Everything of the profile that a cloning pass leaves alone.
profilingVars ==
  <<code_end, tries_size_, dex_pc, entries, dex_pc_bb_starts, try_i, dex_pcs,
    invokes, targets, handlers, profileVars, thr, historyVars>>

\* instruction->DebugName(): the kind name.
DebugName(instruction) == instructions[instruction].kind

\* SafeMap::count, Get, Overwrite and Put on a map written as a set of
\* <<key, value>> pairs.
Count(map, k) == Cardinality({p \in map : p[1] = k})
Get(map, k) == (CHOOSE p \in map : p[1] = k)[2]
Overwrite(map, k, v) == {p \in map : p[1] # k} \cup {<<k, v>>}
Put(map, k, v) == IF Count(map, k) # 0 THEN map ELSE map \cup {<<k, v>>}

\* The constructor. The history: operations done, the kind of the first
\* instruction that took the unsupported path ("": none), how many
\* instructions of the region have been visited in order with nothing else
\* done (-1: the pass did something else), and the last operation.
InitCloner ==
  /\ phase = "clone"
  /\ code_end = 0
  /\ tries_size_ = 0
  /\ dex_pc = 0
  /\ entries = <<>>
  /\ dex_pc_bb_starts = {}
  /\ try_i = 0
  /\ dex_pcs = <<>>
  /\ invokes = <<>>
  /\ targets = {}
  /\ handlers = {}
  /\ kIsDebugBuild \in BOOLEAN
  /\ cache_ = <<>>
  /\ bb_counts = <<>>
  /\ holding_class_ = NULL
  /\ thr = NoThreads
  /\ calls = 0
  /\ published = 0
  /\ notified = 0
  /\ returned = {}
  /\ serial = FALSE
  /\ audit = FALSE
  /\ prev = None
  /\ cloning_enabled_ \in BOOLEAN
  /\ all_cloned_okay_ = TRUE
  /\ use_cloned_inputs_ \in BOOLEAN
  /\ allow_overwrite_ \in BOOLEAN
  /\ orig_to_clone_ = {}
  /\ manual_clones_ = {}
  /\ debug_name_failed_clone_ = ""
  /\ \E g \in SampleGraphs :
       /\ instructions = g.nodes
       /\ pass = [ops |-> 0, first_failed |-> "", straight |-> 0,
                  region |-> g.region,
                  last |-> [op |-> "none", instr |-> NULL, clone |-> NULL]]

\* The history after operation op on instr; `failed` tells whether the
\* operation took the unsupported path.
Did(op, instr, clone, failed) ==
  [pass EXCEPT
     !.ops = @ + 1,
     !.first_failed = IF failed /\ @ = "" THEN DebugName(instr) ELSE @,
     !.straight = IF /\ op = "Visit"
                     /\ @ >= 0
                     /\ @ < Len(pass.region)
                     /\ pass.region[@ + 1] = instr
                  THEN @ + 1 ELSE -1,
     !.last = [op |-> op, instr |-> instr, clone |-> clone]]

InPass == phase = "clone" /\ pass.ops < MaxOps

\* GetClone that finds no entry.
GetClone_NoEntry(source) == NULL

\* GetClone that returns a clone of the map whatever source is.
GetClone_AnyEntry(source) ==
  IF orig_to_clone_ # {} THEN (CHOOSE p \in orig_to_clone_ : TRUE)[2] ELSE NULL

\* The mapped clone of source, or nullptr.
GetClone(source) ==
  IF Count(orig_to_clone_, source) # 0 THEN Get(orig_to_clone_, source)
  ELSE NULL

\* bool AllOkay() const.
AllOkay == all_cloned_okay_

\* GetDebugNameForFailedClone(), for a caller that respects
\* DCHECK(!all_cloned_okay_).
GetDebugNameForFailedClone == debug_name_failed_clone_

\* UnsupportedInstruction without the assignment to all_cloned_okay_.
UnsupportedInstruction_KeepsFlag(instruction) ==
  /\ all_cloned_okay_' = all_cloned_okay_
  /\ debug_name_failed_clone_' = DebugName(instruction)

\* Marks that the instruction is not supported by the cloner.
UnsupportedInstruction(instruction) ==
  /\ all_cloned_okay_' = FALSE
  /\ debug_name_failed_clone_' = DebugName(instruction)

\* The visitors that call UnsupportedInstruction: VisitAddLHSMemory,
\* VisitCurrentMethod, VisitIntConstant, VisitParallelMove, ...
VisitIntentionallyUnsupported(instr) ==
  /\ InPass
  /\ instructions[instr].kind \in IntentionallyUnsupported
  /\ UnsupportedInstruction(instr)
  /\ pass' = Did("Visit", instr, NULL, TRUE)
  /\ UNCHANGED <<phase, profilingVars, cloning_enabled_, use_cloned_inputs_,
                 allow_overwrite_, orig_to_clone_, manual_clones_,
                 instructions>>

\* VisitInstruction without the LOG(FATAL) of debug builds.
VisitInstruction_NoFatal(instruction) ==
  /\ InPass
  /\ instructions[instruction].kind \notin Cloneable \cup IntentionallyUnsupported
  /\ phase' = phase
  /\ UnsupportedInstruction(instruction)
  /\ pass' = Did("Visit", instruction, NULL, TRUE)
  /\ UNCHANGED <<profilingVars, cloning_enabled_, use_cloned_inputs_,
                 allow_overwrite_, orig_to_clone_, manual_clones_,
                 instructions>>

\* The default visitor, reached by a kind without a visitor of its own.
VisitInstruction(instruction) ==
  /\ InPass
  /\ instructions[instruction].kind \notin Cloneable \cup IntentionallyUnsupported
  /\ IF kIsDebugBuild
     THEN /\ phase' = "fatal"
          /\ UNCHANGED <<all_cloned_okay_, debug_name_failed_clone_>>
          /\ pass' = Did("Visit", instruction, NULL, FALSE)
     ELSE /\ phase' = phase
          /\ UnsupportedInstruction(instruction)
          /\ pass' = Did("Visit", instruction, NULL, TRUE)
  /\ UNCHANGED <<profilingVars, cloning_enabled_, use_cloned_inputs_,
                 allow_overwrite_, orig_to_clone_, manual_clones_,
                 instructions>>

\* CommitClone that registers the clone only while all_cloned_okay_ holds.
CommitClone_OnlyWhenOkay(instr, clone) ==
  IF ~allow_overwrite_ /\ kIsDebugBuild /\ Count(orig_to_clone_, instr) # 0
  THEN phase' = "fatal" /\ orig_to_clone_' = orig_to_clone_
  ELSE /\ phase' = phase
       /\ orig_to_clone_' = IF all_cloned_okay_
                            THEN Overwrite(orig_to_clone_, instr, clone)
                            ELSE orig_to_clone_

\* CommitClone with Put in place of Overwrite.
CommitClone_Put(instr, clone) ==
  IF ~allow_overwrite_ /\ kIsDebugBuild /\ Count(orig_to_clone_, instr) # 0
  THEN phase' = "fatal" /\ orig_to_clone_' = orig_to_clone_
  ELSE /\ phase' = phase
       /\ orig_to_clone_' = Put(orig_to_clone_, instr, clone)

\* CommitClone: the DCHECK (compiled into debug builds only), then Overwrite.
CommitClone(instr, clone) ==
  IF ~allow_overwrite_ /\ kIsDebugBuild /\ Count(orig_to_clone_, instr) # 0
  THEN phase' = "fatal" /\ orig_to_clone_' = orig_to_clone_
  ELSE /\ phase' = phase
       /\ orig_to_clone_' = Overwrite(orig_to_clone_, instr, clone)

\* GetInputsForUnary .. GetInputsForMany: for each operand the clone-map
\* image if present and use_cloned_inputs_ is set, else the operand itself.
GetInputs(instr) ==
  [k \in 1 .. Len(instructions[instr].inputs) |->
     LET input == instructions[instr].inputs[k]
     IN  IF use_cloned_inputs_ /\ GetClone(input) # NULL THEN GetClone(input)
         ELSE input]

\* CloneEnvironment that copies the innermost environment only.
CloneEnvironment_NoParents(instr) ==
  [l \in 1 .. (IF Len(instructions[instr].env) = 0 THEN 0 ELSE 1) |->
     [v \in 1 .. Len(instructions[instr].env[l]) |->
        LET value == instructions[instr].env[l][v]
        IN  IF value # NULL /\ GetClone(value) # NULL THEN GetClone(value)
            ELSE value]]

\* CloneEnvironment(instr, clone): the chain is copied link by link, each
\* captured value replaced by its clone-map image if it has one.
CloneEnvironment(instr) ==
  [l \in 1 .. Len(instructions[instr].env) |->
     [v \in 1 .. Len(instructions[instr].env[l]) |->
        LET value == instructions[instr].env[l][v]
        IN  IF value # NULL /\ GetClone(value) # NULL THEN GetClone(value)
            ELSE value]]

\* VisitCloneable that clones whether or not cloning_enabled_ is set.
VisitCloneable_AlwaysClones(instr) ==
  /\ InPass
  /\ instructions[instr].kind \in Cloneable
  /\ LET clone == Len(instructions) + 1
     IN  /\ instructions' = Append(instructions,
              HInstruction(instructions[instr].kind, GetInputs(instr),
                           CloneEnvironment(instr)))
         /\ CommitClone(instr, clone)
         /\ pass' = Did("Visit", instr, clone, FALSE)
  /\ UNCHANGED <<all_cloned_okay_, debug_name_failed_clone_>>
  /\ UNCHANGED <<profilingVars, cloning_enabled_, use_cloned_inputs_,
                 allow_overwrite_, manual_clones_>>

\* The visitor of a cloneable kind (VisitAdd, VisitNeg, VisitNullCheck, ...).
\* With cloning enabled: a new instruction of the same kind is allocated with
\* the inputs GetInputs yields and the cloned environment, and committed.
\* In disabled mode ("'false' to see if cloning is possible") the visit has
\* no effect: nothing is allocated and the clone map is untouched.
VisitCloneable(instr) ==
  /\ InPass
  /\ instructions[instr].kind \in Cloneable
  /\ IF cloning_enabled_
     THEN LET clone == Len(instructions) + 1
          IN  /\ instructions' = Append(instructions,
                   HInstruction(instructions[instr].kind, GetInputs(instr),
                                CloneEnvironment(instr)))
              /\ CommitClone(instr, clone)
              /\ pass' = Did("Visit", instr, clone, FALSE)
              /\ UNCHANGED <<all_cloned_okay_, debug_name_failed_clone_>>
     ELSE /\ pass' = Did("Visit", instr, NULL, FALSE)
          /\ UNCHANGED <<phase, instructions, orig_to_clone_, all_cloned_okay_,
                         debug_name_failed_clone_>>
  /\ UNCHANGED <<profilingVars, cloning_enabled_, use_cloned_inputs_,
                 allow_overwrite_, manual_clones_>>

\* AddOrUpdateCloneManually with Put in place of Overwrite.
AddOrUpdateCloneManually_Put(original, clone) ==
  /\ InPass
  /\ orig_to_clone_' = Put(orig_to_clone_, original, clone)
  /\ pass' = Did("AddOrUpdateCloneManually", original, clone, FALSE)
  /\ UNCHANGED <<phase, profilingVars, cloning_enabled_, all_cloned_okay_,
                 use_cloned_inputs_, allow_overwrite_, manual_clones_,
                 debug_name_failed_clone_, instructions>>

\* AddOrUpdateCloneManually; original and clone are instructions, never
\* nullptr (the DCHECKs).
AddOrUpdateCloneManually(original, clone) ==
  /\ InPass
  /\ orig_to_clone_' = Overwrite(orig_to_clone_, original, clone)
  /\ pass' = Did("AddOrUpdateCloneManually", original, clone, FALSE)
  /\ UNCHANGED <<phase, profilingVars, cloning_enabled_, all_cloned_okay_,
                 use_cloned_inputs_, allow_overwrite_, manual_clones_,
                 debug_name_failed_clone_, instructions>>

\* AddCloneManually; original and clone are instructions, never nullptr (the
\* DCHECKs). SafeMap::Put asserts in a debug build that the key is new.
AddCloneManually(original, clone) ==
  /\ InPass
  /\ IF kIsDebugBuild /\ Count(orig_to_clone_, original) # 0
     THEN /\ phase' = "fatal"
          /\ UNCHANGED <<orig_to_clone_, manual_clones_>>
     ELSE /\ phase' = phase
          /\ orig_to_clone_' = Put(orig_to_clone_, original, clone)
          /\ manual_clones_' = IF kIsDebugBuild
                               THEN manual_clones_ \cup {original}
                               ELSE manual_clones_
  /\ pass' = Did("AddCloneManually", original, clone, FALSE)
  /\ UNCHANGED <<profilingVars, cloning_enabled_, all_cloned_okay_,
                 use_cloned_inputs_, allow_overwrite_,
                 debug_name_failed_clone_, instructions>>

\* The instructions of the graph a pass visits, and the instructions a
\* caller hands in as clones.
Originals == UNION {(1 .. Len(g.nodes)) \ g.spare : g \in SampleGraphs}
ManualClones == UNION {g.spare : g \in SampleGraphs}

Visit(instr) ==
  \/ VisitCloneable(instr)
  \/ VisitIntentionallyUnsupported(instr)
  \/ VisitInstruction(instr)

NextClone ==
  \/ \E instr \in Originals : Visit(instr)
  \/ \E original \in Originals, clone \in ManualClones :
       \/ AddOrUpdateCloneManually(original, clone)
       \/ AddCloneManually(original, clone)

SpecClone == InitCloner /\ [][NextClone]_vars

\* A caller asks for the clone of source: the const member GetClone, whose
\* DCHECK(clone != nullptr) aborts a debug build on a null image.
CallGetClone(source) ==
  /\ InPass
  /\ LET clone == GetClone(source)
     IN  /\ phase' = IF /\ kIsDebugBuild
                        /\ Count(orig_to_clone_, source) # 0
                        /\ clone = NULL
                     THEN "fatal" ELSE phase
         /\ pass' = Did("GetClone", source, clone, FALSE)
  /\ UNCHANGED <<cloning_enabled_, all_cloned_okay_, use_cloned_inputs_,
                 allow_overwrite_, orig_to_clone_, manual_clones_,
                 debug_name_failed_clone_, instructions, profilingVars>>

\* A pass whose caller also queries the clone map.
NextQuery ==
  \/ NextClone
  \/ \E source \in Originals \cup ManualClones : CallGetClone(source)

SpecQuery == InitCloner /\ [][NextQuery]_vars

\* --------------------------------------------------------------- properties
Caches == 1 .. Len(cache_)
Occupied(c) == {s \in Slots : cache_[c].classes_[s] # NULL}
ClassesIn(c) == {cache_[c].classes_[s] : s \in Occupied(c)}
InTwoSlots(c) ==
  \E s1, s2 \in Slots :
    /\ s1 # s2
    /\ cache_[c].classes_[s1] # NULL
    /\ cache_[c].classes_[s1] = cache_[c].classes_[s2]
ReturnedFor(c) == {cls \in Types : <<c, cls>> \in returned}
AllIdle == \A t \in Threads : thr[t].pc = "idle"
InAddInvokeInfo(t) == thr[t].pc \in {"ic_read", "ic_cas", "ic_barrier"}
InIncrementBBCount(t) == thr[t].pc \in {"bb_cmp", "bb_load", "bb_store"}
ListsCreated == phase \in {"alloc", "live", "nomem"}
StrictlyAscending(s) == \A i \in 1 .. Len(s) - 1 : U32Less(s[i], s[i + 1])
\* v + 1 as a uint32_t, for v below the maximum.
Successor(v) == IF v = INT32_MAX THEN INT32_MIN ELSE v + 1

\* C1: threads add types to one call site concurrently and the collector
\* clears nothing. No type is in two slots of an inline cache, and the type
\* of every call that has returned is in a slot unless every slot is
\* occupied.
C1_NoDuplicateNoLostType ==
  \A c \in Caches :
    /\ ~InTwoSlots(c)
    /\ \A cls \in ReturnedFor(c) : cls \in ClassesIn(c) \/ Occupied(c) = Slots

\* Two threads added the same type: one published it and returned, the other
\* is about to fail its compare-and-swap on that slot.
C1_Witness ==
  \E t \in Threads :
    /\ thr[t].pc = "ic_cas"
    /\ cache_[thr[t].cache].classes_[thr[t].i] = thr[t].cls
    /\ <<thr[t].cache, thr[t].cls>> \in returned

\* C2: threads add types to one call site while the collector clears
\* occupied slots. No type is in two slots of the inline cache.
C2_NoTypeInTwoSlots == \A c \in Caches : ~InTwoSlots(c)

\* C3: without collector clears, once calls for at most
\* kIndividualCacheSize distinct types have returned and none is running,
\* the occupied slots hold exactly those types, each once.
C3_HoldsTheTypesAdded ==
  \A c \in Caches :
    AllIdle /\ Cardinality(ReturnedFor(c)) <= kIndividualCacheSize =>
      /\ ClassesIn(c) = ReturnedFor(c)
      /\ Cardinality(Occupied(c)) = Cardinality(ReturnedFor(c))

\* C3: a step taken while every slot of a cache is occupied leaves its slots
\* unchanged, and a call on that cache does not abort.
C3_FullCacheUnchanged ==
  \A c \in Caches :
    Occupied(c) = Slots =>
      /\ cache_'[c] = cache_[c]
      /\ \A t \in Threads :
           thr[t].cache = c /\ thr'[t] # thr[t] => phase' = "live"

\* C3: from an empty cache and without collector clears, N distinct types
\* (N at most kIndividualCacheSize) fill N slots, one each; adding a further
\* type to a full cache changes no slot and raises no error.
C3_FillsThenDrops == []C3_HoldsTheTypesAdded /\ [][C3_FullCacheUnchanged]_vars

\* Calls for kIndividualCacheSize + 1 distinct types have returned.
C3_Witness ==
  /\ phase = "live"
  /\ AllIdle
  /\ \E c \in Caches :
       /\ Cardinality(ReturnedFor(c)) = kIndividualCacheSize + 1
       /\ Occupied(c) = Slots

\* C4: a lone caller calls AddInvokeInfo(dex_pc, cls) twice in a row, the
\* collector clearing nothing from the start of the first call on. The
\* second call attempts no compare-and-swap and notifies no one, and during
\* and after it the inline caches are as the first call left them.
C4_SecondCallChangesNothing ==
  /\ \A t \in Threads :
       thr[t].rep =>
         /\ thr[t].pc \notin {"ic_cas", "ic_barrier"}
         /\ cache_ = prev.snap
         /\ published = prev.published
         /\ notified = prev.notified
  /\ prev.twice =>
       /\ cache_ = prev.snap
       /\ published = prev.published
       /\ notified = prev.notified

\* The second of two calls has returned, the type being in the cache.
C4_Witness ==
  /\ prev.twice
  /\ prev.op = "AddInvokeInfo"
  /\ prev.cls \in ClassesIn(prev.cache)

\* C5: every successful compare-and-swap is followed, before the call
\* returns, by exactly one WriteBarrierEveryFieldOf; a call that publishes
\* nothing notifies no one. The notifications made and those the publishing
\* threads are about to make add up to the successful compare-and-swaps.
C5_OneNotificationPerPublish ==
  /\ notified + Cardinality({t \in Threads : thr[t].pc = "ic_barrier"})
       = published
  /\ AllIdle => notified = published

\* Three calls have returned, two of them published and notified.
C5_Witness ==
  /\ AllIdle
  /\ Cardinality(returned) = 3
  /\ published = 2
  /\ notified = 2

\* C6: a lone caller's IncrementBBCount on a registered offset adds exactly
\* one to a counter below 2^32 - 1 and leaves a counter at 2^32 - 1 there.
C6_SaturatingIncrement ==
  prev.op = "IncrementBBCount" =>
    IF prev.old = UINT32_MAX THEN prev.new = UINT32_MAX
    ELSE prev.new = Successor(prev.old) /\ U32Less(prev.old, prev.new)

\* A call found the counter at 2^32 - 1.
C6_Witness ==
  /\ prev.op = "IncrementBBCount"
  /\ prev.old = UINT32_MAX
  /\ bb_counts[prev.i].count_ = UINT32_MAX

\* C7: threads run IncrementBBCount concurrently. No step makes the count_
\* of a counter smaller, be it by a stale store or by wrapping past 2^32 - 1.
C7_NeverDecreases ==
  [][\A i \in 1 .. Len(bb_counts) :
       ~U32Less(bb_counts'[i].count_, bb_counts[i].count_)]_vars

\* C8: the block starts Create collects are offset 0, the targets of the
\* unconditional jumps, the fall-through and the target of the conditional
\* branches, the offset after each switch and its case targets, and the
\* catch handlers; the list it builds holds exactly these.
C8_BlockStartsExact ==
  /\ dex_pc_bb_starts = MethodEntry \cup targets \cup handlers
  /\ ListsCreated => SeqToSet(dex_pcs) = MethodEntry \cup targets \cup handlers

\* A conditional branch of two code units at offset 1 that targets offset 4.
C8_Witness ==
  /\ phase = "alloc"
  /\ targets = {3, 4}
  /\ handlers = {}
  /\ dex_pcs = <<0, 3, 4>>

\* C9: the entries are the offsets of the virtual and interface invokes, in
\* the order met and strictly increasing; the block-start list has no
\* duplicate, ascends strictly and begins with 0.
C9_ListsOrdered ==
  /\ entries = invokes
  /\ StrictlyAscending(entries)
  /\ ListsCreated =>
       /\ StrictlyAscending(dex_pcs)
       /\ Cardinality(SeqToSet(dex_pcs)) = Len(dex_pcs)
       /\ dex_pcs[1] = 0

\* Two invokes, met at offsets 0 and 3.
C9_Witness ==
  /\ phase = "alloc"
  /\ entries = <<0, 3>>
  /\ dex_pcs = <<0>>

\* C10: the profile has one inline cache per entry and one counter per block
\* start, in their order; all slots are empty and all counts 0 until the
\* first call.
C10_Shape ==
  phase \in {"live", "fatal"} =>
    /\ Len(cache_) = Len(entries)
    /\ \A c \in Caches : cache_[c].dex_pc_ = entries[c]
    /\ Len(bb_counts) = Len(dex_pcs)
    /\ \A i \in 1 .. Len(bb_counts) : bb_counts[i].dex_pc_ = dex_pcs[i]
    /\ calls = 0 =>
         /\ \A c \in Caches : Occupied(c) = {}
         /\ \A i \in 1 .. Len(bb_counts) : bb_counts[i].count_ = 0

\* C10: a step of AddInvokeInfo(dex_pc, cls) changes at most one slot, of
\* the cache whose dex_pc_ is dex_pc, and no counter; a step of
\* IncrementBBCount(dex_pc) changes only count_ of the counter whose dex_pc_
\* is dex_pc.
C10_Frame ==
  \A t \in Threads :
    thr'[t].pc # thr[t].pc \/ thr'[t].i # thr[t].i =>
      /\ InAddInvokeInfo(t) =>
           /\ bb_counts' = bb_counts
           /\ \A c \in Caches :
                cache_'[c] # cache_[c] =>
                  /\ cache_[c].dex_pc_ = thr[t].dex_pc
                  /\ Cardinality({s \in Slots :
                       cache_'[c].classes_[s] # cache_[c].classes_[s]}) = 1
      /\ InIncrementBBCount(t) =>
           /\ cache_' = cache_
           /\ \A i \in 1 .. Len(bb_counts) :
                bb_counts'[i] # bb_counts[i] =>
                  bb_counts[i].dex_pc_ = thr[t].dex_pc

\* C10: no step on a live profile changes the number of inline caches or of
\* counters, or a dex_pc_.
C10_Fixed ==
  phase = "live" =>
    /\ Len(cache_') = Len(cache_)
    /\ \A c \in Caches : cache_'[c].dex_pc_ = cache_[c].dex_pc_
    /\ Len(bb_counts') = Len(bb_counts)
    /\ \A i \in 1 .. Len(bb_counts) : bb_counts'[i].dex_pc_ = bb_counts[i].dex_pc_

\* C10: the structure of a profile is fixed at construction, and each
\* operation writes only where its offset leads.
C10_StructureImmutable ==
  []C10_Shape /\ [][C10_Frame /\ C10_Fixed]_vars

\* Both sites and a counter were updated and the collector cleared a slot.
C10_Witness ==
  /\ phase = "live"
  /\ Len(cache_) = 2
  /\ Occupied(2) # {}
  /\ \E i \in 1 .. Len(bb_counts) : bb_counts[i].count_ = 1
  /\ published > Cardinality(Occupied(1)) + Cardinality(Occupied(2))

\* C11: a lone caller's AddInvokeInfo or IncrementBBCount with a dex_pc that
\* has no inline cache, respectively no counter, leaves the profile in the
\* fatal state.
C11_UnregisteredIsFatal ==
  prev.op \in {"AddInvokeInfo/nullptr", "IncrementBBCount/nomatch"} =>
    phase = "fatal"

\* C11: AddInvokeInfo with a dex_pc that has no inline cache is fatal in
\* every build, IncrementBBCount with a dex_pc that has no counter is fatal
\* in a debug build and returns in a release build; a call never works on a
\* cache or a counter of another dex_pc.
C11_Outcome ==
  /\ prev.op = "AddInvokeInfo/nullptr" => phase = "fatal"
  /\ prev.op = "IncrementBBCount/nomatch" => (phase = "fatal") = kIsDebugBuild
  /\ \A t \in Threads :
       /\ InAddInvokeInfo(t) => cache_[thr[t].cache].dex_pc_ = thr[t].dex_pc
       /\ InIncrementBBCount(t) => bb_counts[thr[t].i].dex_pc_ = thr[t].dex_pc

\* C11: the step of such a call changes no slot and no counter and makes no
\* compare-and-swap and no notification.
C11_NothingModified ==
  prev'.op \in {"AddInvokeInfo/nullptr", "IncrementBBCount/nomatch"}
    /\ calls' = calls + 1 =>
      /\ cache_' = cache_
      /\ bb_counts' = bb_counts
      /\ published' = published
      /\ notified' = notified
      /\ thr' = thr

\* C11: an unregistered dex_pc is fatal for AddInvokeInfo, and for
\* IncrementBBCount in a debug build; in a release build IncrementBBCount
\* returns. In every case nothing is modified and no one is notified.
C11_UnregisteredOffset == []C11_Outcome /\ [][C11_NothingModified]_vars

\* A release build: IncrementBBCount found no counter and returned, after a
\* type was published.
C11_Witness ==
  /\ prev.op = "IncrementBBCount/nomatch"
  /\ ~kIsDebugBuild
  /\ phase = "live"
  /\ published = 1

\* ------------------------------------------- properties of the cloner
\* The step is a visit of instr, a manual operation on original.
Visited(instr) ==
  /\ pass'.ops = pass.ops + 1
  /\ pass'.last.op = "Visit"
  /\ pass'.last.instr = instr
Seeded(op, original, clone) ==
  /\ pass'.ops = pass.ops + 1
  /\ pass'.last = [op |-> op, instr |-> original, clone |-> clone]
\* The clone map read as a relation.
Mapped(o) == \E p \in orig_to_clone_ : p[1] = o
Images(o) == {p[2] : p \in {q \in orig_to_clone_ : q[1] = o}}
\* What a reference is remapped to: its image if it has one, else itself.
Remapped(ref) == IF ref # NULL /\ Mapped(ref) THEN Images(ref) ELSE {ref}
KindOf(instr) == instructions[instr].kind

\* C12: all_cloned_okay_ is false exactly if an instruction visited so far
\* took the unsupported path; it is true for a fresh cloner.
C12_FalseIffUnsupported ==
  /\ AllOkay = (pass.first_failed = "")
  /\ pass.ops = 0 => AllOkay

\* C12: a visit that clones and a manual map operation leave AllOkay() as it
\* was, and once false it stays false.
C12_KeptAndSticky ==
  /\ ~AllOkay => ~AllOkay'
  /\ pass'.ops = pass.ops + 1 /\ pass'.last.op # "Visit" => AllOkay' = AllOkay
  /\ pass'.ops = pass.ops + 1 /\ pass'.last.clone # NULL => AllOkay' = AllOkay

\* C12: AllOkay() is false iff some instruction visited so far in the pass
\* took the unsupported path; a clone or a manual operation never changes
\* it, and it never turns true again.
C12_AllOkay == []C12_FalseIffUnsupported /\ [][C12_KeptAndSticky]_vars

\* A pass that failed and then went on with a manual operation.
C12_Witness ==
  /\ ~AllOkay
  /\ phase = "clone"
  /\ pass.last.op = "AddOrUpdateCloneManually"

\* C13: when AllOkay() is false, GetDebugNameForFailedClone() is the kind of
\* the first instruction that took the unsupported path.
C13_NameOfFirstFailure ==
  ~AllOkay => GetDebugNameForFailedClone = pass.first_failed

\* C14: the visit of an intentionally unsupported instruction records the
\* failure, does not stop the pass, adds no clone and changes no clone-map
\* entry; a cloneable instruction visited after a failure is cloned and
\* registered like any other.
C14_Step ==
  \A instr \in Originals :
    Visited(instr) =>
      /\ KindOf(instr) \in IntentionallyUnsupported =>
           /\ ~AllOkay'
           /\ debug_name_failed_clone_' = KindOf(instr)
           /\ phase' = "clone"
           /\ orig_to_clone_' = orig_to_clone_
           /\ instructions' = instructions
      /\ KindOf(instr) \in Cloneable /\ cloning_enabled_ /\ ~AllOkay
           /\ phase' = "clone" =>
           /\ Len(instructions') = Len(instructions) + 1
           /\ instructions'[Len(instructions')].kind = KindOf(instr)
           /\ <<instr, Len(instructions')>> \in orig_to_clone_'
           /\ \A p \in orig_to_clone_ : p[1] # instr => p \in orig_to_clone_'

\* C14: an unsupported instruction fails the pass without halting it.
C14_FailureDoesNotHalt == [][C14_Step]_vars

\* An instruction was cloned and registered after the pass had failed.
C14_Witness ==
  /\ ~AllOkay
  /\ phase = "clone"
  /\ pass.last.op = "Visit"
  /\ pass.last.clone # NULL
  /\ <<pass.last.instr, pass.last.clone>> \in orig_to_clone_

\* C15: without allow_overwrite_, cloning an instruction that has a
\* clone-map entry is rejected by the assertion and the entry is kept.
C15_SecondCloneRejected ==
  [][\A instr \in Originals :
       /\ Visited(instr)
       /\ KindOf(instr) \in Cloneable
       /\ cloning_enabled_
       /\ ~allow_overwrite_
       /\ Mapped(instr)
       => phase' = "fatal" /\ orig_to_clone_' = orig_to_clone_]_vars

\* C15: every original has at most one clone.
C15_OneClone == \A o \in Originals : Cardinality(Images(o)) <= 1

\* C15: cloning an instruction that has a clone-map entry: in a debug build
\* without allow_overwrite_ the assertion fails and the entry is kept;
\* otherwise the new clone replaces the entry.
C15_Step ==
  \A instr \in Originals :
    Visited(instr) /\ KindOf(instr) \in Cloneable /\ cloning_enabled_
      /\ Mapped(instr) =>
        IF ~allow_overwrite_ /\ kIsDebugBuild
        THEN phase' = "fatal" /\ orig_to_clone_' = orig_to_clone_
        ELSE /\ phase' = "clone"
             /\ <<instr, Len(instructions')>> \in orig_to_clone_'
             /\ Len(instructions') = Len(instructions) + 1
             /\ \A c \in Images(instr) : <<instr, c>> \notin orig_to_clone_'

\* C15: a second clone of an original is rejected by the assertion of a
\* debug build without allow_overwrite_, the entry being kept; with
\* allow_overwrite_, and in a release build, it replaces the entry. An
\* original never has two clones.
C15_SecondClone == []C15_OneClone /\ [][C15_Step]_vars

\* With allow_overwrite_, one instruction was cloned twice.
C15_Witness ==
  /\ allow_overwrite_
  /\ phase = "clone"
  /\ pass.ops = 2
  /\ Len(instructions) = 7
  /\ Cardinality(orig_to_clone_) = 1
  /\ <<pass.last.instr, 7>> \in orig_to_clone_

\* C16: in disabled mode no instruction is allocated and every clone-map
\* entry is one the caller seeded.
C16_NothingCloned ==
  ~cloning_enabled_ =>
    /\ \E g \in SampleGraphs : instructions = g.nodes
    /\ \A p \in orig_to_clone_ : p[2] \in ManualClones

\* C16: in disabled mode a visit leaves the clone map and the arena alone.
C16_VisitHasNoEffect ==
  \A instr \in Originals :
    Visited(instr) /\ ~cloning_enabled_ =>
      /\ orig_to_clone_' = orig_to_clone_
      /\ instructions' = instructions

C17_RoundTrip ==
  cloning_enabled_ /\ phase = "clone" /\ pass.straight >= 1 =>
    \A j \in 1 .. pass.straight :
      LET instr == pass.region[j]
      IN  /\ Cardinality(Images(instr)) = 1
          /\ \A clone \in Images(instr) :
               /\ clone \notin Originals
               /\ KindOf(clone) = KindOf(instr)
               /\ Len(instructions[clone].inputs) = Len(instructions[instr].inputs)
               /\ \A k \in 1 .. Len(instructions[instr].inputs) :
                    LET input == instructions[instr].inputs[k]
                    IN  instructions[clone].inputs[k] \in
                          (IF use_cloned_inputs_ THEN Remapped(input)
                           ELSE {input})
          /\ \A i \in 1 .. pass.straight :
               i # j => Images(pass.region[i]) # Images(instr)

\* The whole region of three instructions was cloned with cloned inputs.
C17_Witness ==
  /\ cloning_enabled_
  /\ use_cloned_inputs_
  /\ phase = "clone"
  /\ pass.straight = 3

\* C18: the clone of an instruction gets an environment chain with as many
\* links and as many values per link as the original's, each value being the
\* clone-map image of the original's value if it has one and the same
\* reference otherwise; no existing instruction is modified.
C18_Step ==
  \A instr \in Originals :
    Visited(instr) /\ pass'.last.clone # NULL =>
      LET clone == pass'.last.clone
          env == instructions[instr].env
          cenv == instructions'[clone].env
      IN  /\ Len(cenv) = Len(env)
          /\ \A l \in 1 .. Len(env) :
               /\ Len(cenv[l]) = Len(env[l])
               /\ \A v \in 1 .. Len(env[l]) : cenv[l][v] \in Remapped(env[l][v])
          /\ \A i \in 1 .. Len(instructions) : instructions'[i] = instructions[i]

\* C18: environments are cloned link by link under the clone map.
C18_EnvironmentCloned == [][C18_Step]_vars

\* The NullCheck was cloned after the Add it captures: its clone's chain has
\* a remapped value, a kept reference and an empty vreg.
C18_Witness ==
  /\ pass.last.op = "Visit"
  /\ pass.last.clone # NULL
  /\ Len(instructions[pass.last.instr].env) = 2
  /\ \E c \in Images(3) \ {3} :
       instructions[pass.last.clone].env[1] = <<c, 1, NULL>>

\* C19: AddOrUpdateCloneManually(original, clone) makes clone the image of
\* original whatever was mapped before; AddCloneManually(original, clone)
\* does so for an original without entry. Both leave every other entry and
\* AllOkay() unchanged, in debug and release builds alike.
C19_Step ==
  \A original \in Originals, clone \in ManualClones :
    /\ Seeded("AddOrUpdateCloneManually", original, clone) =>
         /\ phase' = "clone"
         /\ orig_to_clone_' =
              {p \in orig_to_clone_ : p[1] # original} \cup {<<original, clone>>}
         /\ AllOkay' = AllOkay
    /\ Seeded("AddCloneManually", original, clone) =>
         /\ ~Mapped(original) =>
              /\ phase' = "clone"
              /\ orig_to_clone_' = orig_to_clone_ \cup {<<original, clone>>}
         /\ Mapped(original) => orig_to_clone_' = orig_to_clone_
         /\ AllOkay' = AllOkay

\* C19: manual overrides of the clone map.
C19_ManualOverrides == [][C19_Step]_vars

\* A clone made by a visit was replaced by AddOrUpdateCloneManually.
C19_Witness ==
  /\ phase = "clone"
  /\ pass.ops = 2
  /\ pass.last.op = "AddOrUpdateCloneManually"
  /\ Len(instructions) = 6
  /\ orig_to_clone_ = {<<pass.last.instr, pass.last.clone>>}

\* C20: the visit of an instruction whose kind has no visitor of its own: a
\* debug build aborts with the clone map and the failure flag as they were;
\* a release build marks the instruction unsupported and records its kind.
\* Neither allocates a clone or adds a clone-map entry.
C20_Step ==
  \A instr \in Originals :
    Visited(instr) /\ KindOf(instr) \notin Cloneable \cup IntentionallyUnsupported =>
      /\ orig_to_clone_' = orig_to_clone_
      /\ instructions' = instructions
      /\ IF kIsDebugBuild
         THEN /\ phase' = "fatal"
              /\ all_cloned_okay_' = all_cloned_okay_
              /\ debug_name_failed_clone_' = debug_name_failed_clone_
         ELSE /\ phase' = "clone"
              /\ ~AllOkay'
              /\ debug_name_failed_clone_' = KindOf(instr)

\* C20: nothing happens once the default visitor has aborted a debug build.
C20_Aborted ==
  phase = "fatal" /\ phase' = "fatal" => UNCHANGED clonerVars

\* C20: the default visitor is fatal in a debug build and the unsupported
\* path in a release build.
C20_DefaultDispatch == [][C20_Step /\ C20_Aborted]_vars

\* A release build visited a MultiplyAccumulate.
C20_Witness ==
  /\ ~kIsDebugBuild
  /\ phase = "clone"
  /\ pass.last.op = "Visit"
  /\ KindOf(pass.last.instr) = "MultiplyAccumulate"
  /\ debug_name_failed_clone_ = "MultiplyAccumulate"

\* C21: a GetClone(original) call returns the clone mapped to original, or
\* nullptr without an error if original has no entry; the clone map, the
\* failure flag, the failure name and the instructions are as before.
C21_Step ==
  \A source \in Originals \cup ManualClones :
    /\ pass'.ops = pass.ops + 1
    /\ pass'.last.op = "GetClone"
    /\ pass'.last.instr = source
    => /\ IF Mapped(source) THEN pass'.last.clone \in Images(source)
          ELSE pass'.last.clone = NULL
       /\ phase' = phase
       /\ orig_to_clone_' = orig_to_clone_
       /\ manual_clones_' = manual_clones_
       /\ AllOkay' = AllOkay
       /\ debug_name_failed_clone_' = debug_name_failed_clone_
       /\ instructions' = instructions

\* C21: GetClone is a query without effect, and total.
C21_PureQuery == [][C21_Step]_vars

\* Half-way through a failed pass, GetClone was asked for an instruction
\* that has no clone while another one has.
C21_Witness ==
  /\ phase = "clone"
  /\ pass.last.op = "GetClone"
  /\ pass.last.clone = NULL
  /\ orig_to_clone_ # {}
  /\ ~AllOkay

\* ------------------------------- properties of the retry loop under races
\* Thread t takes the step; the slot it is at and the value in it.
Steps(t) == thr'[t].pc # thr[t].pc \/ thr'[t].i # thr[t].i
SlotOf(t) == cache_[thr[t].cache].classes_[thr[t].i]
SameCall(t) ==
  /\ thr'[t].cache = thr[t].cache
  /\ thr'[t].cls = thr[t].cls
  /\ thr'[t].dex_pc = thr[t].dex_pc
NothingWritten ==
  /\ cache_' = cache_
  /\ published' = published
  /\ notified' = notified

\* C22: a failed compare-and-swap on slot i leaves the thread about to read
\* slot i again, slot 0 included.
C22_FailedCas(t) ==
  thr[t].pc = "ic_cas" /\ Steps(t) /\ SlotOf(t) # NULL =>
    /\ thr'[t].pc = "ic_read"
    /\ thr'[t].i = thr[t].i
    /\ thr'[t].tries = thr[t].tries + 1
    /\ SameCall(t)
    /\ NothingWritten

\* C22: the read that follows a failed compare-and-swap: the requested type
\* ends the call with nothing written or notified, another type moves the
\* scan to slot i + 1 (or ends it after the last slot), an empty slot leads
\* to another compare-and-swap on slot i.
C22_ReRead(t) ==
  thr[t].pc = "ic_read" /\ thr[t].tries > 0 /\ Steps(t) =>
    /\ NothingWritten
    /\ SlotOf(t) = thr[t].cls => thr'[t].pc = "idle"
    /\ SlotOf(t) \notin {thr[t].cls, NULL} =>
         IF thr[t].i + 1 < kIndividualCacheSize
         THEN /\ thr'[t].pc = "ic_read"
              /\ thr'[t].i = thr[t].i + 1
              /\ SameCall(t)
         ELSE thr'[t].pc = "idle"
    /\ SlotOf(t) = NULL =>
         /\ thr'[t].pc = "ic_cas"
         /\ thr'[t].i = thr[t].i
         /\ SameCall(t)

\* C22: within a call the index only moves from slot i to slot i + 1, and
\* only by a read of slot i that found a type other than the requested one.
C22_NoSkip(t) ==
  InAddInvokeInfo(t) /\ InAddInvokeInfo(t)' /\ thr'[t].i # thr[t].i =>
    /\ thr[t].pc = "ic_read"
    /\ SlotOf(t) \notin {thr[t].cls, NULL}
    /\ thr'[t].i = thr[t].i + 1

\* C22: after a failed compare-and-swap on slot i the thread reads slot i
\* again and acts on what it reads; it never passes a slot it has not read
\* as holding a different type.
C22_RetrySameSlot ==
  [][\A t \in Threads : C22_FailedCas(t) /\ C22_ReRead(t) /\ C22_NoSkip(t)]_vars

\* A thread whose compare-and-swap on slot 0 failed read slot 0 again, found
\* it cleared, and is about to try the compare-and-swap again.
C22_Witness ==
  \E t \in Threads :
    /\ thr[t].pc = "ic_cas"
    /\ thr[t].tries > 0
    /\ thr[t].i = 0
    /\ SlotOf(t) = NULL

\* C23: a change of a cache slot is either a successful compare-and-swap of
\* a thread at that slot, from empty to the type the thread was called with,
\* or a clear by the collector, from a type to empty.
C23_SlotChange(c, s) ==
  LET old == cache_[c].classes_[s]
      new == cache_'[c].classes_[s]
  IN  new # old =>
        \/ /\ old = NULL
           /\ \E t \in Threads :
                /\ thr[t].pc = "ic_cas"
                /\ thr[t].cache = c
                /\ thr[t].i = s
                /\ thr[t].cls = new
                /\ thr'[t].pc = "ic_barrier"
           /\ published' = published + 1
        \/ /\ old # NULL
           /\ new = NULL
           /\ \A t \in Threads : thr'[t].pc = thr[t].pc /\ thr'[t].i = thr[t].i

\* C23: AddInvokeInfo never overwrites an occupied slot; a slot goes from
\* empty to a type by a compare-and-swap only, from a type to empty by the
\* collector only, and never from one type to another.
C23_NeverOverwrites ==
  [][phase = "live" =>
       \A c \in Caches, s \in Slots : C23_SlotChange(c, s)]_vars

\* A thread has just published into a slot, after the collector cleared an
\* earlier publication.
C23_Witness ==
  \E t \in Threads :
    /\ thr[t].pc = "ic_barrier"
    /\ SlotOf(t) = thr[t].cls
    /\ published = 2
    /\ Cardinality(UNION {{<<c, s>> : s \in Occupied(c)} : c \in Caches}) = 1

\* The occupied slots of cache c are its first ones.
IsPrefix(c) == \A s \in Occupied(c) : \A r \in 0 .. s - 1 : r \in Occupied(c)
\* The collector has cleared nothing so far: every publication filled an
\* empty slot, every clear emptied one.
NothingCleared ==
  published = Cardinality(UNION {{<<c, s>> : s \in Occupied(c)} : c \in Caches})

\* C24: as long as the collector has cleared nothing, under any interleaving
\* of AddInvokeInfo calls no empty slot precedes an occupied one, and a cache
\* has all its slots occupied exactly if its last slot is. (Once the
\* collector has cleared a slot the shape can be lost: C24_Witness.)
C24_OccupiedPrefix ==
  NothingCleared =>
    \A c \in Caches :
      /\ IsPrefix(c)
      /\ Occupied(c) = Slots <=> kIndividualCacheSize - 1 \in Occupied(c)

\* After a clear by the collector, an empty slot precedes an occupied one.
C24_Witness ==
  \E c \in Caches :
    /\ 0 \notin Occupied(c)
    /\ kIndividualCacheSize - 1 \in Occupied(c)
    /\ ~NothingCleared

\* C25: while the collector has cleared nothing, a thread about to read slot
\* i has read it at most once before, and a thread about to compare-and-swap
\* slot i has not tried before: at most two reads and one compare-and-swap
\* per slot and call.
C25_Bounded ==
  NothingCleared =>
    \A t \in Threads :
      /\ thr[t].pc = "ic_read" => thr[t].reads <= 1 /\ thr[t].tries <= 1
      /\ thr[t].pc = "ic_cas" => thr[t].reads = 1 /\ thr[t].tries = 0

\* C25: a compare-and-swap fails only if another thread has published into
\* the slot since the failing thread read it.
C25_FailsOnlyIfBeaten ==
  \A t \in Threads :
    thr[t].pc = "ic_cas" /\ Steps(t) /\ thr'[t].pc # "ic_barrier" =>
      thr[t].beaten

\* C25: a thread inside AddInvokeInfo can always take its next step.
C25_NeverBlocked ==
  \A t \in Threads :
    phase = "live" /\ InAddInvokeInfo(t) => ENABLED InvokeStep(t)

\* C25: every call returns, unless the process has aborted.
C25_Returns ==
  \A t \in Threads : InAddInvokeInfo(t) ~> (thr[t].pc = "idle" \/ phase = "fatal")

\* C25: every AddInvokeInfo call terminates. Without clears a call reads a
\* slot at most twice and tries one compare-and-swap on it. With clears (of
\* which a run has finitely many, the collector clearing only what was
\* published) a call returns if its thread keeps being scheduled; its
\* compare-and-swap fails only to another thread's publication, and it never
\* waits for another thread.
C25_Terminates ==
  /\ []C25_Bounded
  /\ []C25_NeverBlocked
  /\ [][C25_FailsOnlyIfBeaten]_vars
  /\ C25_Returns

\* Without any clear, a thread's compare-and-swap has failed and the thread
\* is about to read the slot a second time.
C25_Witness ==
  \E t \in Threads :
    /\ NothingCleared
    /\ thr[t].pc = "ic_read"
    /\ thr[t].reads = 1
    /\ thr[t].tries = 1

====
